---------------------------- MODULE Spec2Model ----------------------------
(***************************************************************************)
(* A model of src/main.cc of the 1brc solution: the four newline scanners  *)
(* (split_by_rows_naive / _sse2 / _avx2 / _avx512), process_line with its  *)
(* double-checked insertion into station_map, and main.                    *)
(*                                                                         *)
(* Offsets are C offsets (0-based) into the mapped buffer; the buffer is a *)
(* TLA+ sequence, so byte i of the buffer is data[i + 1].  A               *)
(* std::string_view is the record [off, len] (pointer and length).         *)
(* A SIMD match mask is the set of its set bit positions.                  *)
(***************************************************************************)
EXTENDS Integers, Sequences, FiniteSets, TLC

VARIABLES
  data,        \* the bytes the scanner / the workers read (file contents)
  results,     \* std::vector<std::string_view> returned by a scanner
  variant,     \* which scanner produced results ("none" before the scan)
  nthreads,    \* std::thread::hardware_concurrency(): the size of the pool
  queue,       \* the pool's pending tasks: indexes into results
  taken,       \* the tasks the pool's workers have dequeued, in order
  pc,          \* per worker: its position in process_line ("idle" outside)
  line,        \* per worker: the argument of process_line
  station,     \* per worker: the local station
  temperature, \* per worker: the local temperature
  station_map, \* the nodes of the unordered_map, in order of insertion
  map_access_mutex, \* the worker holding the mutex, 0 when free
  mpc,         \* main's position ("off" when main is not running)
  argc,        \* main's argc
  file,        \* main's local MappedFile file
  tmp,         \* the temporary MappedFile{argv[1]}
  os,          \* the descriptors and mappings the process holds
  out,         \* what main has written to standard output
  status,      \* the exit status of the process (-1 while it runs)
  objects,     \* MappedFile objects of a client of the class, by slot
  res          \* the descriptors and mappings that client's process holds

scanVars == <<data, results, variant>>

poolVars == <<nthreads, queue, taken>>

workerVars == <<pc, line, station, temperature>>

mapVars == <<station_map, map_access_mutex>>

mainVars == <<mpc, argc, file, tmp, os, out, status>>

fileVars == <<objects, res>>

vars == <<scanVars, poolVars, workerVars, mapVars, mainVars, fileVars>>

-----------------------------------------------------------------------------
(* Bounds of the model *)

\* longest buffer handed to a scanner
MaxLen == 66
\* longest period of the newline patterns the buffers are drawn from
MaxPeriod == 3
\* largest number of worker threads of the pool
MaxThreads == 2
\* largest number of lines of an input processed by the workers
MaxLines == 3
\* number of MappedFile objects a client of the class may have at a time
MaxObjects == 3
\* largest number of successful open() calls of a client of the class
MaxOpens == 3

-----------------------------------------------------------------------------
(* Bytes *)

NL == 10
Semicolon == 59

\* the other ASCII codes the model uses
Ascii == [minus |-> 45, zero |-> 48, nine |-> 57, A |-> 65, B |-> 66]

Filler == Ascii.A

-----------------------------------------------------------------------------
(* Program constants of the scanners *)

Sse2Width == 16
Avx2Width == 32
Avx512Width == 64
IntBits == 32
U64Bits == 64

-----------------------------------------------------------------------------
(* std::string_view *)

View(off, len) == [off |-> off, len |-> len]

\* the bytes a view denotes
Bytes(d, sv) == SubSeq(d, sv.off + 1, sv.off + sv.len)

-----------------------------------------------------------------------------
(* split_by_rows_naive *)

RECURSIVE NaiveLoop(_, _, _, _)
NaiveLoop(d, i, start, result) ==
  IF i < Len(d)
  THEN IF d[i + 1] = NL
       THEN NaiveLoop(d, i + 1, i + 1, Append(result, View(start, i - start)))
       ELSE NaiveLoop(d, i + 1, start, result)
  ELSE [start |-> start, result |-> result]

split_by_rows_naive_trailing(d) ==
  LET r == NaiveLoop(d, 0, 0, <<>>)
  IN  IF r.start <= Len(d)
      THEN Append(r.result, View(r.start, Len(d) - r.start))
      ELSE r.result

split_by_rows_naive(d) ==
  LET r == NaiveLoop(d, 0, 0, <<>>)
  IN  IF r.start < Len(d)
      THEN Append(r.result, View(r.start, Len(d) - r.start))
      ELSE r.result

-----------------------------------------------------------------------------
(* The vectorised scanners *)

SetMin(S) == CHOOSE x \in S : \A y \in S : x <= y

CmpMaskMissesLastLane(d, p, width) == {b \in 0 .. width - 2 : d[p + b + 1] = NL}

\* movemask(cmpeq(block, newline)): bit b is set iff lane b of the block at
\* offset p holds a newline
CmpMask(d, p, width) == {b \in 0 .. width - 1 : d[p + b + 1] = NL}

\* _tzcnt_u32 / _tzcnt_u64 of a non-zero mask: index of the lowest set bit
tzcnt(mask) == SetMin(mask)

\* mask - 1 in two's complement of the given number of bits: the lowest set
\* bit is cleared and every bit below it is set (0 - 1 is all ones).  The
\* masks of sse2 and avx2 are signed ints; the subtraction is taken as the
\* x86 instruction computes it, wrapping at INT_MIN.
Decrement(mask, bits) ==
  IF mask = {}
  THEN 0 .. bits - 1
  ELSE (mask \ {tzcnt(mask)}) \cup (0 .. tzcnt(mask) - 1)

\* mask - 1 on a signed int of the given number of bits leaves the range of
\* the type exactly when mask is its least value: only the sign bit is set
SignedDecrementOverflows(mask, bits) == mask = {bits - 1}

ClearLowestBitDropsAll(mask, bits) == {}

\* mask &= mask - 1
ClearLowestBit(mask, bits) == mask \cap Decrement(mask, bits)

\* while (mask != 0) { ... }
RECURSIVE MaskLoop(_, _, _, _, _)
MaskLoop(mask, p, start, result, bits) ==
  IF mask # {}
  THEN LET bit == tzcnt(mask)
       IN  MaskLoop(ClearLowestBit(mask, bits), p, p + bit + 1,
                    Append(result, View(start, (p + bit) - start)), bits)
  ELSE [start |-> start, result |-> result]

\* the non-zero values mask takes at the head of the inner loop: those on
\* which mask - 1 is computed
RECURSIVE MasksVisited(_, _)
MasksVisited(mask, bits) ==
  IF mask # {}
  THEN {mask} \cup MasksVisited(ClearLowestBit(mask, bits), bits)
  ELSE {}

\* while (size >= width) { ...; data += width; size -= width; }
RECURSIVE BlockLoop(_, _, _, _, _, _, _)
BlockLoop(d, p, size, start, result, width, bits) ==
  IF size >= width
  THEN LET r == MaskLoop(CmpMask(d, p, width), p, start, result, bits)
       IN  BlockLoop(d, p + width, size - width, r.start, r.result, width, bits)
  ELSE [p |-> p, size |-> size, start |-> start, result |-> result]

\* while (size > 0) { if (*data == '\n') ...; data++; size--; }
RECURSIVE TailLoop(_, _, _, _, _)
TailLoop(d, p, size, start, result) ==
  IF size > 0
  THEN IF d[p + 1] = NL
       THEN TailLoop(d, p + 1, size - 1, p + 1, Append(result, View(start, p - start)))
       ELSE TailLoop(d, p + 1, size - 1, start, result)
  ELSE [p |-> p, start |-> start, result |-> result]

LastPieceAlways(start, p, result) == Append(result, View(start, p - start))

\* if (start != data) result.emplace_back(start, data);
LastPiece(start, p, result) ==
  IF start # p THEN Append(result, View(start, p - start)) ELSE result

SplitSimd(d, width, bits) ==
  LET b == BlockLoop(d, 0, Len(d), 0, <<>>, width, bits)
      t == TailLoop(d, b.p, b.size, b.start, b.result)
  IN  LastPiece(t.start, t.p, t.result)

split_by_rows_sse2(d) == SplitSimd(d, Sse2Width, IntBits)

split_by_rows_avx2(d) == SplitSimd(d, Avx2Width, IntBits)

split_by_rows_avx512(d) == SplitSimd(d, Avx512Width, U64Bits)

-----------------------------------------------------------------------------
(* float: a finite value or NaN.  The finite values of the model are small  *)
(* integers, which float represents exactly.                                *)

F(v) == [nan |-> FALSE, v |-> v]

NaN == [nan |-> TRUE, v |-> 0]

\* a < b on floats: false as soon as one side is NaN
FLess(a, b) == ~a.nan /\ ~b.nan /\ a.v < b.v

\* a <= b on floats
FLessEq(a, b) == ~a.nan /\ ~b.nan /\ a.v <= b.v

\* a + b on floats
FAdd(a, b) == IF a.nan \/ b.nan THEN NaN ELSE F(a.v + b.v)

\* std::min(a, b): (b < a) ? b : a
StdMin(a, b) == IF FLess(b, a) THEN b ELSE a

\* std::max(a, b): (a < b) ? b : a
StdMax(a, b) == IF FLess(a, b) THEN b ELSE a

\* what an uninitialised float may hold
Uninitialised == {NaN, F(7)}

-----------------------------------------------------------------------------
(* std::string_view::find, substr and std::from_chars                       *)

\* std::string_view::npos, as an offset: data + npos is data - 1
NPOS == 0 - 1

\* line.find(ch): offset of the first ch in the view, npos when there is none
Find(d, sv, ch) ==
  LET hits == {i \in 0 .. sv.len - 1 : d[sv.off + i + 1] = ch}
  IN  IF hits = {} THEN NPOS ELSE SetMin(hits)

\* line.substr(0, pos)
Substr0(sv, pos) == View(sv.off, IF pos = NPOS \/ pos > sv.len THEN sv.len ELSE pos)

IsDigit(b) == b >= Ascii.zero /\ b <= Ascii.nine

RECURSIVE DigitsValue(_, _, _)
DigitsValue(bytes, i, acc) ==
  IF i <= Len(bytes) /\ IsDigit(bytes[i])
  THEN DigitsValue(bytes, i + 1, 10 * acc + (bytes[i] - Ascii.zero))
  ELSE acc

\* std::from_chars(first, last, value) on the bytes of [first, last): an
\* optional '-' and the longest run of digits; without a digit the call fails
\* and leaves value as it was.  (The inputs of the model hold no '.', 'e',
\* "inf" or "nan".)
from_chars(bytes) ==
  LET neg == Len(bytes) > 0 /\ bytes[1] = Ascii.minus
      s == IF neg THEN 2 ELSE 1
  IN  IF s <= Len(bytes) /\ IsDigit(bytes[s])
      THEN [ok |-> TRUE,
            value |-> F(IF neg THEN 0 - DigitsValue(bytes, s, 0)
                        ELSE DigitsValue(bytes, s, 0))]
      ELSE [ok |-> FALSE, value |-> NaN]

\* the bytes of [line.data() + pos, line.data() + pos + 1)
ParsedRange(d, sv, pos) == SubSeq(d, sv.off + pos + 1, sv.off + pos + 1)

\* the values temperature may hold after the from_chars call of process_line
Temperatures(d, sv, pos) ==
  LET r == from_chars(ParsedRange(d, sv, pos))
  IN  IF r.ok THEN {r.value} ELSE Uninitialised

-----------------------------------------------------------------------------
(* station_map: std::unordered_map<std::string_view, StationData>           *)

KeyEqByAddress(d, a, b) == a = b

\* std::equal_to<std::string_view>: the two views hold the same bytes
KeyEq(d, a, b) == Bytes(d, a) = Bytes(d, b)

\* StationData(float temperature), and the node holding it; owner is the
\* worker holding *mtx (0: free); linked is false while insert is running
NewNode(key, t) ==
  [key |-> key, min |-> t, max |-> t, count |-> 1, sum |-> t,
   owner |-> 0, linked |-> FALSE]

\* the indexes of the nodes whose key equals key
NodesOf(d, map, key) == {i \in 1 .. Len(map) : KeyEq(d, map[i].key, key)}

\* station_map.contains(station) when no insert is running
Contains(d, map, key) == NodesOf(d, map, key) # {}

\* what station_map.contains(station), called without map_access_mutex, may
\* return: while another worker is inside insert() for an equal key the call
\* races with it and may or may not see the node
RacyContains(d, map, key) ==
  IF \E i \in NodesOf(d, map, key) : map[i].linked
  THEN {TRUE}
  ELSE IF NodesOf(d, map, key) # {} THEN {TRUE, FALSE} ELSE {FALSE}

\* station_map.at(station)
At(d, map, key) == SetMin(NodesOf(d, map, key))

-----------------------------------------------------------------------------
(* MappedFile objects, and the state of main when main is not running      *)

\* MappedFile(): fd = -1, addr = nullptr (0), fileSize = 0
NoFile == [fd |-> 0 - 1, addr |-> 0, fileSize |-> 0]

\* what open() and mmap() return on success, and MAP_FAILED
TheFd == 3
TheAddr == 4096
MAP_FAILED == 0 - 1

\* no MappedFile object exists and the process holds no resource
NoObjects ==
  /\ objects = [o \in 1 .. MaxObjects |->
                  [live |-> FALSE, fd |-> 0 - 1, addr |-> 0, fileSize |-> 0]]
  /\ res = [fds |-> {}, maps |-> {}, opened |-> 0, faults |-> {},
            thrown |-> "none"]

NoMain ==
  /\ NoObjects
  /\ mpc = "off"
  /\ argc = 0
  /\ file = NoFile
  /\ tmp = NoFile
  /\ os = [fds |-> {}, maps |-> {}]
  /\ out = <<>>
  /\ status = 0 - 1

-----------------------------------------------------------------------------
(* The pool's workers running process_line                                  *)

Workers == 1 .. nthreads

\* the value of a view that does not exist
NoView == View(0, 0)

Goto(t, label) == pc' = [pc EXCEPT ![t] = label]

\* process_line returns: its argument and locals cease to exist
Return(t) ==
  /\ pc' = [pc EXCEPT ![t] = "idle"]
  /\ line' = [line EXCEPT ![t] = NoView]
  /\ station' = [station EXCEPT ![t] = NoView]
  /\ temperature' = [temperature EXCEPT ![t] = NaN]

\* a worker dequeues the next task: process_line(results[i])
Take(t) ==
  /\ pc[t] = "idle"
  /\ queue # <<>>
  /\ line' = [line EXCEPT ![t] = results[Head(queue)]]
  /\ taken' = Append(taken, Head(queue))
  /\ queue' = Tail(queue)
  /\ Goto(t, "parse")
  /\ UNCHANGED <<fileVars, scanVars, nthreads, station, temperature, mapVars, mainVars>>

\* pos = line.find(';'); station = line.substr(0, pos); from_chars(...)
Parse(t) ==
  /\ pc[t] = "parse"
  /\ LET pos == Find(data, line[t], Semicolon)
     IN  /\ station' = [station EXCEPT ![t] = Substr0(line[t], pos)]
         /\ \E v \in Temperatures(data, line[t], pos) :
              temperature' = [temperature EXCEPT ![t] = v]
  /\ Goto(t, "check1")
  /\ UNCHANGED <<fileVars, scanVars, poolVars, line, mapVars, mainVars>>

\* if (!station_map.contains(station)), without the mutex
FirstCheck(t) ==
  /\ pc[t] = "check1"
  /\ \E found \in RacyContains(data, station_map, station[t]) :
       Goto(t, IF found THEN "lock_key" ELSE "lock_map")
  /\ UNCHANGED <<fileVars, scanVars, poolVars, line, station, temperature, mapVars, mainVars>>

\* std::lock_guard<std::mutex> lock(map_access_mutex)
LockMap(t) ==
  /\ pc[t] = "lock_map"
  /\ map_access_mutex = 0
  /\ map_access_mutex' = t
  /\ Goto(t, "check2")
  /\ UNCHANGED <<fileVars, scanVars, poolVars, line, station, temperature, station_map, mainVars>>

SecondCheckFoundKeepsMutex(t) ==
  /\ pc[t] = "check2"
  /\ Contains(data, station_map, station[t])
  /\ Goto(t, "lock_key")
  /\ UNCHANGED <<fileVars, scanVars, poolVars, line, station, temperature, mapVars, mainVars>>

\* the second contains(), under the mutex: the key is there, the guard is
\* released at the end of the block
SecondCheckFound(t) ==
  /\ pc[t] = "check2"
  /\ Contains(data, station_map, station[t])
  /\ map_access_mutex' = 0
  /\ Goto(t, "lock_key")
  /\ UNCHANGED <<fileVars, scanVars, poolVars, line, station, temperature, station_map, mainVars>>

\* the second contains(), under the mutex: the key is still missing
SecondCheckMissing(t) ==
  /\ pc[t] = "check2"
  /\ ~Contains(data, station_map, station[t])
  /\ Goto(t, "insert")
  /\ UNCHANGED <<fileVars, scanVars, poolVars, line, station, temperature, mapVars, mainVars>>

\* station_map.insert({station, StationData(temperature)}) starts: the node
\* is built and insert() begins to link it
InsertBegin(t) ==
  /\ pc[t] = "insert"
  /\ station_map' =
       IF Contains(data, station_map, station[t])
       THEN station_map
       ELSE Append(station_map, NewNode(station[t], temperature[t]))
  /\ Goto(t, "inserting")
  /\ UNCHANGED <<fileVars, scanVars, poolVars, line, station, temperature, map_access_mutex, mainVars>>

\* insert() returns; return; (the guard releases map_access_mutex)
InsertEnd(t) ==
  /\ pc[t] = "inserting"
  /\ station_map' =
       [i \in 1 .. Len(station_map) |-> [station_map[i] EXCEPT !.linked = TRUE]]
  /\ map_access_mutex' = 0
  /\ Return(t)
  /\ UNCHANGED <<fileVars, scanVars, poolVars, mainVars>>

LockKeyWithoutWaiting(t) ==
  /\ pc[t] = "lock_key"
  /\ LET n == At(data, station_map, station[t])
     IN  station_map' = [station_map EXCEPT ![n].owner = t]
  /\ Goto(t, "min")
  /\ UNCHANGED <<fileVars, scanVars, poolVars, line, station, temperature, map_access_mutex, mainVars>>

\* std::lock_guard<std::mutex> lock(*station_map.at(station).mtx)
LockKey(t) ==
  /\ pc[t] = "lock_key"
  /\ LET n == At(data, station_map, station[t])
     IN  /\ station_map[n].owner = 0
         /\ station_map' = [station_map EXCEPT ![n].owner = t]
  /\ Goto(t, "min")
  /\ UNCHANGED <<fileVars, scanVars, poolVars, line, station, temperature, map_access_mutex, mainVars>>

\* it.min = std::min(it.min, temperature)
UpdateMin(t) ==
  /\ pc[t] = "min"
  /\ LET n == At(data, station_map, station[t])
     IN  station_map' =
           [station_map EXCEPT ![n].min = StdMin(@, temperature[t])]
  /\ Goto(t, "max")
  /\ UNCHANGED <<fileVars, scanVars, poolVars, line, station, temperature, map_access_mutex, mainVars>>

\* it.max = std::max(it.max, temperature)
UpdateMax(t) ==
  /\ pc[t] = "max"
  /\ LET n == At(data, station_map, station[t])
     IN  station_map' =
           [station_map EXCEPT ![n].max = StdMax(@, temperature[t])]
  /\ Goto(t, "count")
  /\ UNCHANGED <<fileVars, scanVars, poolVars, line, station, temperature, map_access_mutex, mainVars>>

\* it.count++
UpdateCount(t) ==
  /\ pc[t] = "count"
  /\ LET n == At(data, station_map, station[t])
     IN  station_map' = [station_map EXCEPT ![n].count = @ + 1]
  /\ Goto(t, "sum")
  /\ UNCHANGED <<fileVars, scanVars, poolVars, line, station, temperature, map_access_mutex, mainVars>>

UpdateSumKeepsLock(t) ==
  /\ pc[t] = "sum"
  /\ LET n == At(data, station_map, station[t])
     IN  station_map' = [station_map EXCEPT ![n].sum = FAdd(@, temperature[t])]
  /\ Return(t)
  /\ UNCHANGED <<fileVars, scanVars, poolVars, map_access_mutex, mainVars>>

\* it.sum += temperature; the function returns and the guard releases *mtx
UpdateSum(t) ==
  /\ pc[t] = "sum"
  /\ LET n == At(data, station_map, station[t])
     IN  station_map' =
           [station_map EXCEPT ![n].sum = FAdd(@, temperature[t]), ![n].owner = 0]
  /\ Return(t)
  /\ UNCHANGED <<fileVars, scanVars, poolVars, map_access_mutex, mainVars>>

-----------------------------------------------------------------------------
(* The inputs: files of up to MaxLines well-formed lines, each ended by a   *)
(* newline.                                                                 *)

LineSet ==
  { <<Ascii.A, Semicolon, Ascii.zero + 1>>,
    <<Ascii.A, Semicolon, Ascii.zero + 3>>,
    <<Ascii.B, Semicolon, Ascii.zero + 2>> }

\* the lines of the inputs the concurrent workers are run on: two keys
WorkerLineSet ==
  { <<Ascii.A, Semicolon, Ascii.zero + 1>>,
    <<Ascii.B, Semicolon, Ascii.zero + 2>> }

\* a line whose text after the ';' is no number: A;B
MalformedLineSet == { <<Ascii.A, Semicolon, Ascii.B>> }

\* a line without ';': B
NoSemicolonLineSet == { <<Ascii.B>> }

RECURSIVE Inputs(_, _)
Inputs(lines, n) ==
  IF n = 0 THEN {<<>>}
  ELSE {l \o <<NL>> \o rest : l \in lines, rest \in Inputs(lines, n - 1)}

\* files holding a malformed line: alone, after a well-formed line and
\* before one
MalformedInputs ==
  LET bad == Inputs(MalformedLineSet, 1)
      good == Inputs(WorkerLineSet, 1)
  IN  bad \cup {g \o b : g \in good, b \in bad}
          \cup {b \o g : g \in good, b \in bad}

\* files holding a line without ';': alone and after a well-formed line
NoSemicolonInputs ==
  LET bad == Inputs(NoSemicolonLineSet, 1)
      good == Inputs(WorkerLineSet, 1)
  IN  bad \cup {g \o b : g \in good, b \in bad}

WorkerInputs ==
  UNION {Inputs(WorkerLineSet, n) : n \in 1 .. MaxLines} \cup MalformedInputs

\* the state after main has scanned the file and every line has been
\* submitted to the pool
WorkInit ==
  /\ data \in WorkerInputs
  /\ results = split_by_rows_avx512(data)
  /\ variant = "avx512"
  /\ nthreads \in 1 .. MaxThreads
  /\ queue = [i \in 1 .. Len(results) |-> i]
  /\ taken = <<>>
  /\ pc = [t \in 1 .. MaxThreads |-> "idle"]
  /\ line = [t \in 1 .. MaxThreads |-> NoView]
  /\ station = [t \in 1 .. MaxThreads |-> NoView]
  /\ temperature = [t \in 1 .. MaxThreads |-> NaN]
  /\ station_map = <<>>
  /\ map_access_mutex = 0
  /\ NoMain

\* a step of one worker: it dequeues a task or takes the next step of
\* process_line
WorkNext ==
  \/ \E t \in Workers : Take(t)
  \/ \E t \in Workers : Parse(t)
  \/ \E t \in Workers : FirstCheck(t)
  \/ \E t \in Workers : LockMap(t)
  \/ \E t \in Workers : SecondCheckFound(t)
  \/ \E t \in Workers : SecondCheckMissing(t)
  \/ \E t \in Workers : InsertBegin(t)
  \/ \E t \in Workers : InsertEnd(t)
  \/ \E t \in Workers : LockKey(t)
  \/ \E t \in Workers : UpdateMin(t)
  \/ \E t \in Workers : UpdateMax(t)
  \/ \E t \in Workers : UpdateCount(t)
  \/ \E t \in Workers : UpdateSum(t)

SpecWork == WorkInit /\ [][WorkNext]_vars

\* the next step of worker t, whichever it is
Step(t) ==
  \/ Take(t)
  \/ Parse(t)
  \/ FirstCheck(t)
  \/ LockMap(t)
  \/ SecondCheckFound(t)
  \/ SecondCheckMissing(t)
  \/ InsertBegin(t)
  \/ InsertEnd(t)
  \/ LockKey(t)
  \/ UpdateMin(t)
  \/ UpdateMax(t)
  \/ UpdateCount(t)
  \/ UpdateSum(t)

\* the workers are threads the scheduler keeps running: a worker whose next
\* step stays possible takes it.  (std::mutex promises no fairness between
\* waiters, so nothing stronger is assumed for LockMap and LockKey.)
SpecWorkFair ==
  /\ WorkInit
  /\ [][WorkNext]_vars
  /\ \A t \in 1 .. MaxThreads : WF_vars(t \in Workers /\ Step(t))

-----------------------------------------------------------------------------
(* MappedFile and main                                                      *)

Exit(code) == mpc' = "done" /\ status' = code

\* ~MappedFile(): if (addr) munmap(addr, fileSize); if (fd != -1) close(fd);
Destroyed(o, f) ==
  [fds |-> IF f.fd # 0 - 1 THEN o.fds \ {f.fd} ELSE o.fds,
   maps |-> IF f.addr # 0 THEN o.maps \ {f.addr} ELSE o.maps]

\* if (argc != 2) { ...; return 1; }   MappedFile file;
CheckArgs ==
  /\ mpc = "start"
  /\ IF argc # 2
     THEN Exit(1)
     ELSE mpc' = "open" /\ UNCHANGED status
  /\ UNCHANGED <<fileVars, scanVars, poolVars, workerVars, mapVars, argc, file, tmp, os, out>>

\* fd = open(filename.c_str(), O_RDONLY) succeeds
OpenOk ==
  /\ mpc = "open"
  /\ tmp' = [tmp EXCEPT !.fd = TheFd]
  /\ os' = [os EXCEPT !.fds = @ \cup {TheFd}]
  /\ mpc' = "fstat"
  /\ UNCHANGED <<fileVars, scanVars, poolVars, workerVars, mapVars, argc, file, out, status>>

\* open fails: the constructor throws, main catches and returns 1
OpenFails ==
  /\ mpc = "open"
  /\ tmp' = NoFile
  /\ Exit(1)
  /\ UNCHANGED <<fileVars, scanVars, poolVars, workerVars, mapVars, argc, file, os, out>>

\* fstat succeeds: fileSize = sb.st_size
FstatOk ==
  /\ mpc = "fstat"
  /\ tmp' = [tmp EXCEPT !.fileSize = Len(data)]
  /\ mpc' = "mmap"
  /\ UNCHANGED <<fileVars, scanVars, poolVars, workerVars, mapVars, argc, file, os, out, status>>

\* fstat fails: close(fd), throw, return 1
FstatFails ==
  /\ mpc = "fstat"
  /\ os' = [os EXCEPT !.fds = @ \ {tmp.fd}]
  /\ Exit(1)
  /\ UNCHANGED <<fileVars, scanVars, poolVars, workerVars, mapVars, argc, file, tmp, out>>

\* mmap succeeds (it never does for a length of 0)
MmapOk ==
  /\ mpc = "mmap"
  /\ tmp.fileSize > 0
  /\ tmp' = [tmp EXCEPT !.addr = TheAddr]
  /\ os' = [os EXCEPT !.maps = @ \cup {TheAddr}]
  /\ mpc' = "assign"
  /\ UNCHANGED <<fileVars, scanVars, poolVars, workerVars, mapVars, argc, file, out, status>>

\* mmap returns MAP_FAILED: close(fd), throw, return 1
MmapFails ==
  /\ mpc = "mmap"
  /\ tmp' = [tmp EXCEPT !.addr = MAP_FAILED]
  /\ os' = [os EXCEPT !.fds = @ \ {tmp.fd}]
  /\ Exit(1)
  /\ UNCHANGED <<fileVars, scanVars, poolVars, workerVars, mapVars, argc, file, out>>

\* file = MappedFile{argv[1]}: operator=(MappedFile &&), then the temporary
\* is destroyed
MoveAssign ==
  /\ mpc = "assign"
  /\ file' = tmp
  /\ tmp' = NoFile
  /\ os' = Destroyed(os, NoFile)
  /\ mpc' = "split"
  /\ UNCHANGED <<fileVars, scanVars, poolVars, workerVars, mapVars, argc, out, status>>

\* station_map.reserve(10000);
\* auto results = split_by_rows_avx512(file.data(), file.size());
Split ==
  /\ mpc = "split"
  /\ results' = split_by_rows_avx512(SubSeq(data, 1, file.fileSize))
  /\ variant' = "avx512"
  /\ mpc' = "print"
  /\ UNCHANGED <<fileVars, data, poolVars, workerVars, mapVars, argc, file, tmp, os, out, status>>

\* std::cout << "AVX512 results: " << results.size() << std::endl
\*           << results.at(0) << std::endl;
\* at(0) throws std::out_of_range on an empty vector, which nothing catches
PrintResults ==
  /\ mpc = "print"
  /\ IF results = <<>>
     THEN /\ out' = Append(out, [kind |-> "size", n |-> 0])
          /\ mpc' = "aborted"
          /\ status' = 134
     ELSE /\ out' = out \o << [kind |-> "size", n |-> Len(results)],
                              [kind |-> "line", text |-> Bytes(data, results[1])] >>
          /\ mpc' = "wait"
          /\ UNCHANGED status
  /\ UNCHANGED <<fileVars, scanVars, poolVars, workerVars, mapVars, argc, file, tmp, os>>

\* pool.wait_until_empty(): returns once no task is queued or running
WaitUntilEmpty ==
  /\ mpc = "wait"
  /\ queue = <<>>
  /\ \A t \in Workers : pc[t] = "idle"
  /\ mpc' = "report"
  /\ UNCHANGED <<fileVars, scanVars, poolVars, workerVars, mapVars, argc, file, tmp, os, out, status>>

\* the entry the reporting loop prints for a node: station=min/max/mean,
\* the mean kept as the pair sum, count
Entry(d, node) ==
  [kind |-> "entry", key |-> Bytes(d, node.key), min |-> node.min,
   max |-> node.max, sum |-> node.sum, count |-> node.count]

\* "{", one entry per element of station_map, "}"; return 0; ~MappedFile()
Report ==
  /\ mpc = "report"
  /\ out' = out \o <<[kind |-> "{"]>>
                \o [i \in 1 .. Len(station_map) |-> Entry(data, station_map[i])]
                \o <<[kind |-> "}"]>>
  /\ os' = Destroyed(os, file)
  /\ file' = NoFile
  /\ Exit(0)
  /\ UNCHANGED <<fileVars, scanVars, poolVars, workerVars, mapVars, argc, tmp>>

\* the files main is run on: well-formed files with or without the final
\* newline, the empty file, and files holding a malformed line
MainInputs ==
  LET whole == UNION {Inputs(LineSet, n) : n \in 1 .. MaxLines}
  IN  whole \cup {SubSeq(d, 1, Len(d) - 1) : d \in whole} \cup {<<>>}
            \cup MalformedInputs \cup NoSemicolonInputs

MainInit ==
  /\ data \in MainInputs
  /\ results = <<>>
  /\ variant = "none"
  /\ nthreads \in 1 .. MaxThreads
  /\ queue = <<>>
  /\ taken = <<>>
  /\ pc = [t \in 1 .. MaxThreads |-> "idle"]
  /\ line = [t \in 1 .. MaxThreads |-> NoView]
  /\ station = [t \in 1 .. MaxThreads |-> NoView]
  /\ temperature = [t \in 1 .. MaxThreads |-> NaN]
  /\ station_map = <<>>
  /\ map_access_mutex = 0
  /\ mpc = "start"
  /\ argc \in 1 .. 3
  /\ file = NoFile
  /\ tmp = NoFile
  /\ os = [fds |-> {}, maps |-> {}]
  /\ out = <<>>
  /\ status = 0 - 1
  /\ NoObjects

MainNext ==
  \/ CheckArgs
  \/ OpenOk
  \/ OpenFails
  \/ FstatOk
  \/ FstatFails
  \/ MmapOk
  \/ MmapFails
  \/ MoveAssign
  \/ Split
  \/ PrintResults
  \/ WaitUntilEmpty
  \/ Report

SpecMain == MainInit /\ [][MainNext]_vars

-----------------------------------------------------------------------------
(* The MappedFile class under any client: objects are default-constructed,  *)
(* constructed from a file name, move-constructed, move-assigned and        *)
(* destroyed in any order.  The k-th successful open() returns the          *)
(* descriptor FdOf(k) and its mmap() the address AddrOf(k): descriptors and *)
(* addresses are not reused, so that each acquisition is told apart.        *)

FdOf(k) == TheFd + k - 1

AddrOf(k) == TheAddr * k

\* the sizes fstat may report
FileSizes == {0, 4}

Live(o) == objects[o].live

\* munmap(addr, fileSize) and close(fd) as the process sees them: releasing
\* what is not held is a fault, and so is closing a descriptor whose mapping
\* still exists
Munmap(r, addr) ==
  LET k == addr \div TheAddr
  IN  IF k \in r.maps
      THEN [r EXCEPT !.maps = @ \ {k}]
      ELSE [r EXCEPT !.faults = @ \cup {"munmap of no mapping"}]

Close(r, fd) ==
  LET k == fd - TheFd + 1
  IN  IF k \in r.fds
      THEN [r EXCEPT !.fds = @ \ {k},
                     !.faults = IF k \in r.maps
                                THEN @ \cup {"close before munmap"} ELSE @]
      ELSE [r EXCEPT !.faults = @ \cup {"close of no descriptor"}]

\* MappedFile() = default
DefaultCtor(o) ==
  /\ ~Live(o)
  /\ objects' = [objects EXCEPT ![o] =
                   [live |-> TRUE, fd |-> 0 - 1, addr |-> 0, fileSize |-> 0]]
  /\ res' = [res EXCEPT !.thrown = "none"]
  /\ UNCHANGED <<scanVars, poolVars, workerVars, mapVars, mainVars>>

\* MappedFile(filename): open fails, the constructor throws; no object
CtorOpenFails(o) ==
  /\ ~Live(o)
  /\ res' = [res EXCEPT !.thrown = "Failed to open the file"]
  /\ UNCHANGED <<scanVars, poolVars, workerVars, mapVars, mainVars, objects>>

\* MappedFile(filename): fstat fails: close(fd), throw; no object
CtorFstatFails(o) ==
  /\ ~Live(o)
  /\ res.opened < MaxOpens
  /\ LET k == res.opened + 1
         opened == [res EXCEPT !.opened = k, !.fds = @ \cup {k}]
     IN  res' = [Close(opened, FdOf(k)) EXCEPT
                   !.thrown = "Failed to get the file size"]
  /\ UNCHANGED <<scanVars, poolVars, workerVars, mapVars, mainVars, objects>>

\* MappedFile(filename): mmap returns MAP_FAILED (it always does for a file
\* of size 0): close(fd), throw; no object
CtorMmapFails(o) ==
  /\ ~Live(o)
  /\ res.opened < MaxOpens
  /\ LET k == res.opened + 1
         opened == [res EXCEPT !.opened = k, !.fds = @ \cup {k}]
     IN  res' = [Close(opened, FdOf(k)) EXCEPT
                   !.thrown = "Failed to map the file"]
  /\ UNCHANGED <<scanVars, poolVars, workerVars, mapVars, mainVars, objects>>

\* MappedFile(filename): open, fstat and mmap succeed
Ctor(o) ==
  /\ ~Live(o)
  /\ res.opened < MaxOpens
  /\ \E size \in FileSizes \ {0} :
       LET k == res.opened + 1
       IN  /\ objects' = [objects EXCEPT ![o] =
                            [live |-> TRUE, fd |-> FdOf(k), addr |-> AddrOf(k),
                             fileSize |-> size]]
           /\ res' = [res EXCEPT !.opened = k, !.fds = @ \cup {k},
                                 !.maps = @ \cup {k}, !.thrown = "none"]
  /\ UNCHANGED <<scanVars, poolVars, workerVars, mapVars, mainVars>>

\* what a moved-from object is left with: nullptr, 0, -1
MovedFrom == [live |-> TRUE, fd |-> 0 - 1, addr |-> 0, fileSize |-> 0]

\* MappedFile(MappedFile &&other): takes other's members, resets other
MoveCtor(o, other) ==
  /\ ~Live(o)
  /\ Live(other)
  /\ objects' = [objects EXCEPT ![o] = objects[other], ![other] = MovedFrom]
  /\ res' = [res EXCEPT !.thrown = "none"]
  /\ UNCHANGED <<scanVars, poolVars, workerVars, mapVars, mainVars>>

\* operator=(MappedFile &&other): nothing for this == &other; otherwise
\* addr, fileSize and fd are overwritten with other's and other is reset
MoveAssignment(o, other) ==
  /\ Live(o)
  /\ Live(other)
  /\ objects' = IF o = other THEN objects
                ELSE [objects EXCEPT ![o] = objects[other], ![other] = MovedFrom]
  /\ res' = [res EXCEPT !.thrown = "none"]
  /\ UNCHANGED <<scanVars, poolVars, workerVars, mapVars, mainVars>>

\* ~MappedFile(): if (addr) munmap(addr, fileSize); if (fd != -1) close(fd);
Dtor(o) ==
  /\ Live(o)
  /\ LET unmapped == IF objects[o].addr # 0
                     THEN Munmap(res, objects[o].addr) ELSE res
         closed == IF objects[o].fd # 0 - 1
                   THEN Close(unmapped, objects[o].fd) ELSE unmapped
     IN  res' = [closed EXCEPT !.thrown = "none"]
  /\ objects' = [objects EXCEPT ![o] =
                   [live |-> FALSE, fd |-> 0 - 1, addr |-> 0, fileSize |-> 0]]
  /\ UNCHANGED <<scanVars, poolVars, workerVars, mapVars, mainVars>>

FileInit ==
  /\ data = <<>>
  /\ results = <<>>
  /\ variant = "none"
  /\ nthreads = 1
  /\ queue = <<>>
  /\ taken = <<>>
  /\ pc = [t \in 1 .. MaxThreads |-> "idle"]
  /\ line = [t \in 1 .. MaxThreads |-> NoView]
  /\ station = [t \in 1 .. MaxThreads |-> NoView]
  /\ temperature = [t \in 1 .. MaxThreads |-> NaN]
  /\ station_map = <<>>
  /\ map_access_mutex = 0
  /\ NoMain

FileNext ==
  \/ \E o \in 1 .. MaxObjects : DefaultCtor(o)
  \/ \E o \in 1 .. MaxObjects : CtorOpenFails(o)
  \/ \E o \in 1 .. MaxObjects : CtorFstatFails(o)
  \/ \E o \in 1 .. MaxObjects : CtorMmapFails(o)
  \/ \E o \in 1 .. MaxObjects : Ctor(o)
  \/ \E o, other \in 1 .. MaxObjects : MoveCtor(o, other)
  \/ \E o, other \in 1 .. MaxObjects : MoveAssignment(o, other)
  \/ \E o \in 1 .. MaxObjects : Dtor(o)

SpecFile == FileInit /\ [][FileNext]_vars

-----------------------------------------------------------------------------
(* The buffers the scanners are run on: every length up to MaxLen, newlines *)
(* placed periodically (period 0: none; period 1: only newlines), and one   *)
(* byte optionally flipped between newline and filler.                      *)

Pattern(len, period, phase) ==
  [i \in 1 .. len |->
     IF period > 0 /\ (i - 1) % period = phase THEN NL ELSE Filler]

Flip(d, f) ==
  IF f = 0 THEN d
  ELSE [d EXCEPT ![f] = IF d[f] = NL THEN Filler ELSE NL]

BuffersOf(len, period) ==
  { Flip(Pattern(len, period, phase), f) :
      phase \in 0 .. (IF period = 0 THEN 0 ELSE period - 1), f \in 0 .. len }

ScanBuffers ==
  UNION { BuffersOf(len, period) : len \in 0 .. MaxLen, period \in 0 .. MaxPeriod }

-----------------------------------------------------------------------------
(* Specification of the scanners: a buffer is drawn, one scanner is run.    *)

ScanInit ==
  /\ data \in ScanBuffers
  /\ results = <<>>
  /\ variant = "none"
  /\ nthreads = 1
  /\ queue = <<>>
  /\ taken = <<>>
  /\ pc = [t \in 1 .. MaxThreads |-> "idle"]
  /\ line = [t \in 1 .. MaxThreads |-> NoView]
  /\ station = [t \in 1 .. MaxThreads |-> NoView]
  /\ temperature = [t \in 1 .. MaxThreads |-> NaN]
  /\ station_map = <<>>
  /\ map_access_mutex = 0
  /\ NoMain

Scan(name, spans) ==
  /\ variant = "none"
  /\ variant' = name
  /\ results' = spans
  /\ UNCHANGED <<fileVars, data, poolVars, workerVars, mapVars, mainVars>>

ScanNaive == Scan("naive", split_by_rows_naive(data))

ScanSse2 == Scan("sse2", split_by_rows_sse2(data))

ScanAvx2 == Scan("avx2", split_by_rows_avx2(data))

ScanAvx512 == Scan("avx512", split_by_rows_avx512(data))

ScanNext == ScanNaive \/ ScanSse2 \/ ScanAvx2 \/ ScanAvx512

SpecScan == ScanInit /\ [][ScanNext]_vars

-----------------------------------------------------------------------------
(* The reference reducer: what a single-threaded pass over the lines        *)
(* computes for each key                                                    *)

HasSemicolon(d, sv) == \E i \in 1 .. sv.len : d[sv.off + i] = Semicolon

\* the bytes of a line before its first ';' (the whole line without one)
KeyOfLine(d, sv) ==
  IF HasSemicolon(d, sv)
  THEN LET p == SetMin({i \in 1 .. sv.len : d[sv.off + i] = Semicolon})
       IN  SubSeq(d, sv.off + 1, sv.off + p - 1)
  ELSE Bytes(d, sv)

\* the bytes of a line after its first ';' (none without one)
FieldOfLine(d, sv) ==
  IF HasSemicolon(d, sv)
  THEN LET p == SetMin({i \in 1 .. sv.len : d[sv.off + i] = Semicolon})
       IN  SubSeq(d, sv.off + p + 1, sv.off + sv.len)
  ELSE <<>>

\* the number a whole numeric field denotes
NumberOf(field) ==
  IF field = <<>> THEN 0
  ELSE IF field[1] = Ascii.minus
  THEN 0 - DigitsValue(field, 2, 0)
  ELSE DigitsValue(field, 1, 0)

\* the field is a number: an optional '-' and one or more digits, no more
NumericText(field) ==
  LET s == IF Len(field) > 0 /\ field[1] = Ascii.minus THEN 2 ELSE 1
  IN  /\ s <= Len(field)
      /\ \A i \in s .. Len(field) : IsDigit(field[i])

\* a record: station;number
WellFormed(d, sv) == HasSemicolon(d, sv) /\ NumericText(FieldOfLine(d, sv))

\* the records of the file that are not well-formed
MalformedRecords(d) ==
  LET lines == split_by_rows_naive(d)
  IN  {i \in 1 .. Len(lines) : ~WellFormed(d, lines[i])}

RefKeys(d, lines) == {KeyOfLine(d, lines[i]) : i \in 1 .. Len(lines)}

RefValues(d, lines, key) ==
  [i \in {j \in 1 .. Len(lines) : KeyOfLine(d, lines[j]) = key} |->
     NumberOf(FieldOfLine(d, lines[i]))]

RECURSIVE SumOver(_, _)
SumOver(f, S) ==
  IF S = {} THEN 0
  ELSE LET x == CHOOSE y \in S : TRUE IN f[x] + SumOver(f, S \ {x})

Reference(d, lines, key) ==
  LET vals == RefValues(d, lines, key)
      V == {vals[i] : i \in DOMAIN vals}
  IN  [min |-> F(SetMin(V)),
       max |-> F(CHOOSE x \in V : \A y \in V : y <= x),
       count |-> Cardinality(DOMAIN vals),
       sum |-> F(SumOver(vals, DOMAIN vals))]

Stats(e) == [min |-> e.min, max |-> e.max, count |-> e.count, sum |-> e.sum]

\* no task is queued and no worker is inside process_line
Quiescent == queue = <<>> /\ \A t \in Workers : pc[t] = "idle"

-----------------------------------------------------------------------------
(* Properties of main, under SpecMain                                       *)

Reported == {i \in 1 .. Len(out) : out[i].kind = "entry"}

\* C1: when main ends successfully, its output holds for every distinct key
\* of the input exactly one entry, whose min, max, count and sum are those
\* the reference reducer computes over the lines of the input.
C1_MainReportsReference ==
  (mpc = "done" /\ status = 0) =>
    \A key \in RefKeys(data, results) :
      /\ Cardinality({i \in Reported : out[i].key = key}) = 1
      /\ \A i \in Reported :
           out[i].key = key => Stats(out[i]) = Reference(data, results, key)

\* C3: when pool.wait_until_empty() has returned (the reporting loop is
\* about to run or has run), every span of results has been dequeued by
\* exactly one worker, no worker is still processing, and station_map
\* accounts for every span.
C3_EverySpanProcessedBeforeReport ==
  (mpc = "report" \/ (mpc = "done" /\ status = 0)) =>
    /\ \A i \in 1 .. Len(results) :
         Cardinality({j \in 1 .. Len(taken) : taken[j] = i}) = 1
    /\ Quiescent
    /\ \A key \in RefKeys(data, results) :
         \E n \in 1 .. Len(station_map) :
           /\ Bytes(data, station_map[n].key) = key
           /\ station_map[n].count = Reference(data, results, key).count

\* the summary: the braces and the entries between them
Summary == {i \in 1 .. Len(out) : out[i].kind \in {"{", "entry", "}"}}

\* C11: when the input holds a malformed record (a line without ';', or
\* with text after the ';' that is no number), the run ends with a non-zero
\* exit status and has written no summary to standard output.
C11_MalformedInputRejected ==
  (mpc \in {"done", "aborted"} /\ argc = 2 /\ MalformedRecords(data) # {}) =>
    /\ status # 0
    /\ Summary = {}

\* main has returned 1 because open() or fstat() failed: the constructor
\* threw before it called mmap
OpenOrFstatFailed == mpc = "done" /\ status = 1 /\ argc = 2 /\ tmp.addr = 0

\* C13: main run with one argument on an empty file that it can open and
\* stat ends with exit status 0, and the summary it has written is { }
\* with no entry.
C13_EmptyFileGivesEmptySummary ==
  (data = <<>> /\ argc = 2 /\ mpc \in {"done", "aborted"}
     /\ ~OpenOrFstatFailed) =>
    /\ status = 0
    /\ [i \in 1 .. Len(out) |-> out[i].kind] = <<"size", "{", "}">>
         \/ [i \in 1 .. Len(out) |-> out[i].kind] = <<"{", "}">>

-----------------------------------------------------------------------------
(* Properties of MappedFile, under SpecFile                                 *)

\* C15: whatever constructions, moves and destructions of MappedFile
\* objects have run, no descriptor or mapping was released twice or closed
\* before its mapping was removed; the mapping and the descriptor a live
\* object holds exist and no other live object holds them; and once every
\* object is destroyed, every descriptor opened is closed and every mapping
\* created is removed.
C15_EveryResourceReleasedOnce ==
  /\ res.faults = {}
  /\ \A o \in 1 .. MaxObjects :
       Live(o) =>
         /\ objects[o].addr # 0 => objects[o].addr \div TheAddr \in res.maps
         /\ objects[o].fd # 0 - 1 => objects[o].fd - TheFd + 1 \in res.fds
         /\ \A p \in 1 .. MaxObjects \ {o} :
              Live(p) /\ objects[p].fd = objects[o].fd => objects[o].fd = 0 - 1
  /\ (\A o \in 1 .. MaxObjects : ~Live(o)) => res.fds = {} /\ res.maps = {}

-----------------------------------------------------------------------------
(* Properties of process_line, under SpecWork                               *)

\* C2: once every call of process_line has returned, each key has one
\* accumulator, and it reflects every record of that key exactly once: its
\* count, sum, min and max are those of the records with that key.
C2_AccumulatorsReflectRecords ==
  Quiescent =>
    \A key \in RefKeys(data, results) :
      /\ Cardinality({n \in 1 .. Len(station_map) :
                        Bytes(data, station_map[n].key) = key}) = 1
      /\ \A n \in 1 .. Len(station_map) :
           Bytes(data, station_map[n].key) = key =>
             Stats(station_map[n]) = Reference(data, results, key)

\* C8: station_map never holds two entries whose keys are the same bytes;
\* a worker is between the re-check and the end of the insertion only while
\* it holds map_access_mutex; and once every call has returned, the entry of
\* a key has counted every record of that key: one by the insertion, each
\* other one by an update of that same entry.
C8_OneEntryPerKey ==
  /\ \A i, j \in 1 .. Len(station_map) :
       Bytes(data, station_map[i].key) = Bytes(data, station_map[j].key) => i = j
  /\ \A t \in Workers :
       pc[t] \in {"check2", "insert", "inserting"} => map_access_mutex = t
  /\ Quiescent =>
       \A key \in RefKeys(data, results) :
         \E n \in 1 .. Len(station_map) :
           /\ Bytes(data, station_map[n].key) = key
           /\ station_map[n].count = Reference(data, results, key).count

\* a worker that missed the key on the first check holds map_access_mutex
\* and finds, on the re-check, the entry another worker has inserted from
\* another span
C8_Witness ==
  \E t \in Workers :
    /\ pc[t] = "check2"
    /\ map_access_mutex = t
    /\ \E n \in NodesOf(data, station_map, station[t]) :
         station_map[n].key # station[t]

\* C9: every entry of station_map has count >= 1 and min <= max.
C9_CountAndOrder ==
  \A n \in 1 .. Len(station_map) :
    /\ station_map[n].count >= 1
    /\ FLessEq(station_map[n].min, station_map[n].max)

\* C10: once process_line has parsed a line holding a ';', station is the
\* bytes before the first ';' and temperature is the number denoted by all
\* the bytes after it.
C10_KeyAndWholeField ==
  \A t \in Workers :
    (pc[t] \notin {"idle", "parse"} /\ HasSemicolon(data, line[t])) =>
      /\ Bytes(data, station[t]) = KeyOfLine(data, line[t])
      /\ temperature[t] = F(NumberOf(FieldOfLine(data, line[t])))

\* the well-formed records of the input that have the key of entry n
WellFormedRecordsOf(n) ==
  {i \in 1 .. Len(results) :
     /\ WellFormed(data, results[i])
     /\ KeyOfLine(data, results[i]) = Bytes(data, station_map[n].key)}

\* C12: a record whose numeric text fails to parse changes no accumulator:
\* it inserts no entry and updates none, so once every call of process_line
\* has returned, every entry of station_map stands for at least one
\* well-formed record and has counted the well-formed records of its key
\* only.
C12_MalformedRecordsChangeNothing ==
  Quiescent =>
    \A n \in 1 .. Len(station_map) :
      /\ WellFormedRecordsOf(n) # {}
      /\ station_map[n].count = Cardinality(WellFormedRecordsOf(n))

\* the distinct keys of the lines from line i on, in the order in which
\* they first occur, appended to acc: the order in which a single worker,
\* taking the lines one after the other, inserts them
RECURSIVE FirstOccurrences(_, _, _, _)
FirstOccurrences(d, lines, i, acc) ==
  IF i > Len(lines) THEN acc
  ELSE LET k == KeyOfLine(d, lines[i])
       IN  FirstOccurrences(d, lines, i + 1,
             IF \E j \in 1 .. Len(acc) : acc[j] = k THEN acc ELSE Append(acc, k))

\* C14: the entries the reporter iterates over are determined by the input
\* alone, whatever the interleaving of the workers: once every call of
\* process_line has returned, station_map holds the keys in the same order
\* as in the run in which a single worker processes the lines in order.
C14_OrderDeterminedByInput ==
  Quiescent =>
    [n \in 1 .. Len(station_map) |-> Bytes(data, station_map[n].key)]
      = FirstOccurrences(data, results, 1, <<>>)

\* the entries whose mutex worker t holds
KeysLockedBy(t) == {n \in 1 .. Len(station_map) : station_map[n].owner = t}

\* the number of mutexes worker t holds
LocksHeld(t) ==
  Cardinality(KeysLockedBy(t)) + (IF map_access_mutex = t THEN 1 ELSE 0)

\* C16: a worker holds map_access_mutex only from the re-check to the end
\* of the insertion; it holds the mutex of an entry only while it updates
\* that entry, and then it does not hold map_access_mutex; it never holds
\* two mutexes; and it holds none while it is outside process_line or
\* about to parse its line.
C16_LockingDiscipline ==
  \A t \in Workers :
    /\ map_access_mutex = t => pc[t] \in {"check2", "insert", "inserting"}
    /\ KeysLockedBy(t) # {} =>
         /\ pc[t] \in {"min", "max", "count", "sum"}
         /\ map_access_mutex # t
    /\ LocksHeld(t) <= 1
    /\ pc[t] \in {"idle", "parse"} => LocksHeld(t) = 0

\* one worker is inside the insertion of a new key, holding
\* map_access_mutex, while another updates an existing entry, holding that
\* entry's mutex
C16_Witness ==
  \E t, u \in Workers :
    /\ pc[t] = "inserting"
    /\ map_access_mutex = t
    /\ pc[u] = "count"
    /\ KeysLockedBy(u) # {}

\* the positions of process_line inside the four-field update
Updating == {"min", "max", "count", "sum"}

\* the calls for the key of entry n that have been dequeued, and those of
\* them that have not yet reached the insertion or the update
TakenFor(n) ==
  {j \in 1 .. Len(taken) :
     KeyOfLine(data, results[taken[j]]) = Bytes(data, station_map[n].key)}

PendingFor(n) ==
  {t \in Workers :
     /\ pc[t] \in {"parse", "check1", "lock_map", "check2", "insert", "lock_key"}
     /\ KeyOfLine(data, line[t]) = Bytes(data, station_map[n].key)}

\* the sums of k temperatures that are numbers
RECURSIVE SumsOf(_)
SumsOf(k) ==
  IF k = 0 THEN {0}
  ELSE {s + w.v : s \in SumsOf(k - 1), w \in {u \in Uninitialised : ~u.nan}}

\* C17: whenever the mutex of an entry is free, no worker is inside the
\* four-field update of that entry, its count is the number of records of
\* its key folded into it so far (the inserted one and each completed
\* update), and its sum, when it is a number, is the sum of exactly count
\* temperatures; and once every call has returned (the state the reporter
\* reads) every mutex is free.
C17_UpdateAtomicForObservers ==
  /\ \A n \in 1 .. Len(station_map) :
       station_map[n].owner = 0 =>
         /\ \A t \in Workers :
              pc[t] \in Updating => At(data, station_map, station[t]) # n
         /\ station_map[n].count
              = Cardinality(TakenFor(n)) - Cardinality(PendingFor(n))
         /\ station_map[n].sum.nan
              \/ station_map[n].sum.v \in SumsOf(station_map[n].count)
  /\ Quiescent => \A n \in 1 .. Len(station_map) : station_map[n].owner = 0

\* a worker holding the mutex of an entry has incremented its count and not
\* yet added to its sum: the entry is inconsistent while its mutex is held
C17_Witness ==
  \E t \in Workers :
    /\ pc[t] = "sum"
    /\ LET e == station_map[At(data, station_map, station[t])]
       IN  /\ e.owner = t
           /\ ~e.sum.nan
           /\ e.sum.v \notin SumsOf(e.count)
           /\ e.sum.v \in SumsOf(e.count - 1)

\* worker t takes a step that reads station_map: contains() (first check
\* and re-check) or at() (for the per-key mutex, and for the accumulator)
ReadsMap(t) ==
  /\ pc[t] \in {"check1", "check2", "lock_key", "min"}
  /\ pc'[t] # pc[t]

\* C19: no worker reads station_map, by contains() or at(), while another
\* worker is inside station_map.insert.
C19_NoReadDuringInsert ==
  [][\A t \in Workers :
       ReadsMap(t) => \A u \in Workers \ {t} : pc[u] # "inserting"]_vars

-----------------------------------------------------------------------------
(* Properties of process_line under fair scheduling, SpecWorkFair           *)

\* C18: in every state in which some call of process_line is in progress,
\* some worker inside process_line can take its next step (the workers are
\* never all blocked on mutexes), and under fair scheduling every call of
\* process_line eventually returns: a state is reached in which no task is
\* queued and no worker is inside process_line.
C18_EveryCallReturns ==
  /\ []((\E t \in Workers : pc[t] # "idle") =>
          \E t \in Workers : pc[t] # "idle" /\ ENABLED Step(t))
  /\ <>Quiescent

\* a worker waits for the mutex of an entry that another worker holds
C18_Witness ==
  \E t \in Workers :
    /\ pc[t] = "lock_key"
    /\ station_map[At(data, station_map, station[t])].owner \in Workers \ {t}

-----------------------------------------------------------------------------
(* Properties of the scanners, under SpecScan                               *)

EndsWithNewline(d) == Len(d) > 0 /\ d[Len(d)] = NL

OnlyNewlines(d) == \A i \in 1 .. Len(d) : d[i] = NL

\* the spans joined with one newline byte between consecutive spans
RECURSIVE JoinFrom(_, _, _)
JoinFrom(d, spans, i) ==
  IF i > Len(spans) THEN <<>>
  ELSE IF i = Len(spans) THEN Bytes(d, spans[i])
  ELSE Bytes(d, spans[i]) \o <<NL>> \o JoinFrom(d, spans, i + 1)

Join(d, spans) == JoinFrom(d, spans, 1)

\* C4: whichever of split_by_rows_naive, split_by_rows_sse2,
\* split_by_rows_avx2 and split_by_rows_avx512 has run on a buffer, the
\* sequence of spans it returned is the one the scalar reference
\* split_by_rows_naive computes for that buffer (same start offset and
\* length for each span, same order), so all four agree on every buffer.
C4_ScannersAgree ==
  variant # "none" => results = split_by_rows_naive(data)

\* a vectorised scanner has scanned a buffer of at least one 32-byte block
\* with a newline in the last lane of the block, and returned several spans
C4_Witness ==
  /\ variant = "avx2"
  /\ Len(data) > Avx2Width
  /\ data[Avx2Width] = NL
  /\ Len(results) >= 2

\* C5: the spans a scanner returns are in increasing offset order, lie
\* inside the buffer, contain no newline, do not overlap and cover the
\* buffer: the first starts at offset 0, each next one starts exactly one
\* byte after the previous one ends, and the last one ends at the end of the
\* buffer (at the final newline when the buffer ends with one).
C5_SpansCoverBuffer ==
  variant # "none" =>
    /\ \A i \in 1 .. Len(results) :
         /\ results[i].off >= 0
         /\ results[i].len >= 0
         /\ results[i].off + results[i].len <= Len(data)
         /\ \A j \in 1 .. results[i].len : data[results[i].off + j] # NL
    /\ \A i \in 1 .. Len(results) - 1 :
         results[i + 1].off = results[i].off + results[i].len + 1
    /\ Len(data) > 0 => Len(results) > 0 /\ results[1].off = 0
    /\ Len(results) > 0 =>
         results[Len(results)].off + results[Len(results)].len
           = IF EndsWithNewline(data) THEN Len(data) - 1 ELSE Len(data)

\* the scanner main uses has scanned a buffer of more than one block that
\* does not end with a newline, and returned several spans
C5_Witness ==
  /\ variant = "avx512"
  /\ Len(data) > Avx512Width
  /\ ~EndsWithNewline(data)
  /\ Len(results) >= 3

Avx2Blocks(d) == {p \in 0 .. Len(d) : p % Avx2Width = 0 /\ p + Avx2Width <= Len(d)}

\* C20: when split_by_rows_avx2 has scanned a buffer, then for every whole
\* 32-byte block of it, with mask the int match mask of the block: on no
\* value that mask takes in the inner loop does mask - 1 leave the signed
\* 32-bit range, and the inner loop, which ends when mask is 0, emits
\* exactly one span for each set bit of the match mask.
C20_Avx2MaskStaysInRange ==
  variant = "avx2" =>
    \A p \in Avx2Blocks(data) :
      LET mask == CmpMask(data, p, Avx2Width)
      IN  /\ \A m \in MasksVisited(mask, IntBits) :
               ~SignedDecrementOverflows(m, IntBits)
          /\ Len(MaskLoop(mask, p, p, <<>>, IntBits).result) = Cardinality(mask)

\* C7: for every scanner, an empty buffer yields no span; a buffer of n
\* newline bytes yields exactly the n zero-length spans at offsets 0 .. n-1;
\* and for a buffer ending with a newline no span lies at or after the end of
\* the buffer (the last span ends at that final newline).
C7_ScannerEdgeCases ==
  variant # "none" =>
    /\ data = <<>> => results = <<>>
    /\ OnlyNewlines(data) =>
         results = [i \in 1 .. Len(data) |-> View(i - 1, 0)]
    /\ EndsWithNewline(data) =>
         /\ Len(results) > 0
         /\ \A i \in 1 .. Len(results) : results[i].off < Len(data)
         /\ results[Len(results)].off + results[Len(results)].len = Len(data) - 1

\* a vectorised scanner has scanned a buffer of newline bytes only that
\* fills its block exactly
C7_Witness ==
  /\ variant = "sse2"
  /\ Len(data) = 2 * Sse2Width
  /\ OnlyNewlines(data)
  /\ Len(results) = Len(data)

=============================================================================
